---- MODULE Spec2Model ----
(***************************************************************************)
(* Manusplit: Settings (settings.py) and DocumentSplitter (splitter.py).   *)
(* A document is an ordered sequence of paragraphs; a paragraph is         *)
(* identified by its position in the document and carries the word count   *)
(* utils.count_words gives for its text.  One process_file call is         *)
(* followed step by step: load and count, skip check, one packing          *)
(* iteration per paragraph, last part and result.  The settings object is  *)
(* shared with the GUI thread, which may call Settings.set at any time.    *)
(* The operations that stand on their own are followed in specifications   *)
(* of their own over the same variables: Worker.process (SpecWorker),      *)
(* get_output_filename (SpecNames), the paragraph copy (SpecCopy), the     *)
(* text split and its reading (SpecText), count_words (SpecCount), the     *)
(* Settings operations (SpecSettings), WordLimitInput (SpecLimit), the     *)
(* output folders of a batch (SpecFolders) and the worker threads of       *)
(* process_files (SpecBatch).                                              *)
(***************************************************************************)
EXTENDS Integers, Sequences, FiniteSets, TLC

VARIABLES
    settings_max_words,  \* Settings.settings["max_words"]
    settings_skip,       \* Settings.settings["skip_under_limit"]
    set_request,         \* value of the last Settings.set("max_words", v); 0: none yet
    set_result,          \* what that call returned
    pc,                  \* position of process_file
    ext,                 \* extension of the file being processed
    paragraphs,          \* word count of each extracted paragraph, in order
    max_words,           \* local max_words of the handler
    skip_under_limit,    \* local skip_under_limit of the handler
    req_at_read,         \* set_request at the time the handler read the settings
    i,                   \* number of paragraphs the loop has processed
    part_num,            \* local part_num
    current_content,     \* paragraphs of the part being built
    current_words,       \* local current_words
    started_alone,       \* paragraphs that were appended to an empty current part
    written,             \* part files written, in write order: [num, paras]
    result,              \* the result dict
    file_state,          \* what check_file_access finds at the path
    raised,              \* the exception raised inside the handler, if any
    progress_count,      \* local progress_count
    callbacks,           \* the calls of the progress callback: [stage, pct]
    \* Worker.process (gui.py), with process_file as one step
    w_pc,                \* "idle", "running", "done"
    w_files,             \* number of files of the batch
    w_idx,               \* number of files the loop has been through
    w_outcomes,          \* what process_file did for each file
    w_signals,           \* fileComplete / fileError emitted: [file, kind]
    w_finished,          \* number of times finished was emitted
    \* utils.get_output_filename, applied to one path
    n_pc,                \* "idle", "input", "done"
    n_base,              \* the base name the path was built from
    n_ext,               \* its extension
    n_marked,            \* whether the name carries " - Part <M>"
    n_path,              \* original_path, a sequence of characters
    n_num,               \* part_num
    n_out,               \* the file name returned
    \* the copy of one paragraph into current_doc (_process_docx)
    c_pc,                \* "idle", "input", "copying", "done"
    c_preserve,          \* preserve_formatting
    c_src,               \* para: its runs and the text it holds outside runs
    c_k,                 \* runs of para.runs already gone through
    c_dst,               \* the paragraph added to current_doc
    \* a text file split and its parts read again (_process_txt)
    t_pc,                \* "idle", "input", "packing", "written", "done"
    t_content,           \* content, a sequence of characters
    t_paras,             \* paragraphs
    t_pos,               \* paragraphs already written to a part
    t_part,              \* current_content of the part written last
    t_file,              \* the characters written for that part
    t_back,              \* the paragraphs read from that part
    \* utils.count_words, applied to one text
    k_pc,                \* "idle", "input", "done"
    k_text,              \* text, a sequence of characters
    k_count,             \* the count returned
    \* gui.py: the output folders of a batch (Worker.process)
    f_pc,                \* "idle", "running", "done"
    f_batch,             \* the files of the batch: [dir, base, ext]
    f_idx,               \* files the loop has been through
    f_dirs,              \* folders existing under the main output folder
    f_current,           \* splitter.current_output_folder
    f_dedicated,         \* the folder prepared for each file
    f_written,           \* part files written: [doc, folder, name]
    \* gui.py: process_files, the worker threads and the GUI event queue
    b_threads,           \* state of every QThread started so far
    b_ref,               \* self.worker_thread: 0 is None, else a thread
    b_queue,             \* events posted to the GUI thread, oldest first
    b_overlap,           \* a thread was started while another was running
    \* gui.py: WordLimitInput
    g_value,             \* WordLimitInput.value
    \* settings.py: the last operation on the Settings object
    s_last               \* [op, type, v, ret, before]

\* the variables of the operations that are followed on their own
workerVars == <<w_pc, w_files, w_idx, w_outcomes, w_signals, w_finished>>
nameVars == <<n_pc, n_base, n_ext, n_marked, n_path, n_num, n_out>>
copyVars == <<c_pc, c_preserve, c_src, c_k, c_dst>>
textVars == <<t_pc, t_content, t_paras, t_pos, t_part, t_file, t_back>>
countVars == <<k_pc, k_text, k_count>>
folderVars == <<f_pc, f_batch, f_idx, f_dirs, f_current, f_dedicated, f_written>>
batchVars == <<b_threads, b_ref, b_queue, b_overlap>>
limitVars == <<g_value>>
opVars == <<s_last>>
otherVars == <<workerVars, nameVars, copyVars, textVars, countVars, folderVars,
               batchVars, limitVars, opVars>>

vars == <<settings_max_words, settings_skip, set_request, set_result, pc, ext,
          paragraphs, max_words, skip_under_limit, req_at_read, i, part_num,
          current_content, current_words, started_alone, written, result,
          file_state, raised, progress_count, callbacks, otherVars>>

settingsVars == <<settings_max_words, settings_skip, set_request, set_result>>
localVars == <<max_words, skip_under_limit, req_at_read, i, part_num,
               current_content, current_words, started_alone, written>>
progressVars == <<progress_count, callbacks>>

----------------------------------------------------------------------------
(* Bounds and input sets *)

MaxParas == 3
MaxFiles == 4
MaxBase == 3
MaxRuns == 2
MaxText == 5
MaxCount == 5
MaxBatch == 2
MaxParts == 2
MaxThreads == 3
MaxQueue == 2

DefaultMaxWords == 50000
MinMaxWords == 1000
MaxMaxWords == 100000

\* word counts of paragraphs of a text file: a stripped, non-empty paragraph
\* has at least one token
TxtWords == {1, 500, 1001}
\* a DOCX paragraph is kept when text.strip() is non-empty and counted
\* unstripped: count_words(" - ") = 0
DocxWords == {0, 500, 1001}

\* tests/test-splitter.py: ten paragraphs of five words
TestDoc == [k \in 1..10 |-> 5]

\* values handed to Settings.set("max_words", v)
SetValues == {22, 50, 1000}
\* max_words found in settings.json at construction; 0: no file or no key
LoadedValues == {0, 22, 2000}

Extensions == {".txt", ".docx", ".pdf", ".TXT"}

\* what can be at the path handed to process_file
FileStates == {"ok", "missing", "notfile", "denied", "locked"}

DocsOver(W) == UNION {[1..m -> W] : m \in 0..MaxParas}

RECURSIVE SumSeq(_)
SumSeq(s) == IF s = <<>> THEN 0 ELSE Head(s) + SumSeq(Tail(s))

----------------------------------------------------------------------------
(* settings.py *)

\* Settings._validate_setting("max_words", value)
ValidateSetting(value) ==
    value \in Int /\ ~(value < MinMaxWords) /\ ~(value > MaxMaxWords)

\* the locals and the result of a handler that has not started
HandlerIdle ==
    /\ pc = "idle"
    /\ ext = ""
    /\ paragraphs = <<>>
    /\ max_words = 0
    /\ skip_under_limit = FALSE
    /\ req_at_read = 0
    /\ i = 0
    /\ part_num = 0
    /\ current_content = <<>>
    /\ current_words = 0
    /\ started_alone = {}
    /\ written = <<>>
    /\ result = [success |-> FALSE, message |-> "", total_words |-> 0,
                 parts_created |-> 0, output_files |-> <<>>]
    /\ file_state = "none"
    /\ raised = "none"
    /\ progress_count = 0
    /\ callbacks = <<>>

\* no batch has been handed to a Worker
WorkerIdle ==
    /\ w_pc = "idle"
    /\ w_files = 0
    /\ w_idx = 0
    /\ w_outcomes = <<>>
    /\ w_signals = <<>>
    /\ w_finished = 0

\* get_output_filename is not being followed
NamesIdle ==
    /\ n_pc = "idle"
    /\ n_base = <<>>
    /\ n_ext = <<>>
    /\ n_marked = FALSE
    /\ n_path = <<>>
    /\ n_num = 0
    /\ n_out = <<>>

\* no paragraph is being copied
CopyIdle ==
    /\ c_pc = "idle"
    /\ c_preserve = FALSE
    /\ c_src = [runs |-> <<>>, other |-> <<>>]
    /\ c_k = 0
    /\ c_dst = [runs |-> <<>>]

\* no text file is being followed
TextIdle ==
    /\ t_pc = "idle"
    /\ t_content = <<>>
    /\ t_paras = <<>>
    /\ t_pos = 0
    /\ t_part = <<>>
    /\ t_file = <<>>
    /\ t_back = <<>>

\* count_words is not being followed
CountIdle ==
    /\ k_pc = "idle"
    /\ k_text = <<>>
    /\ k_count = 0

\* no batch is being followed to its folders
FoldersIdle ==
    /\ f_pc = "idle"
    /\ f_batch = <<>>
    /\ f_idx = 0
    /\ f_dirs = {}
    /\ f_current = <<>>
    /\ f_dedicated = <<>>
    /\ f_written = <<>>

\* no window: no thread, no event
BatchIdle ==
    /\ b_threads = <<>>
    /\ b_ref = 0
    /\ b_queue = <<>>
    /\ b_overlap = FALSE

\* no WordLimitInput
LimitIdle == g_value = 0

\* no operation on the Settings object is being followed
OpIdle == s_last = [op |-> "none", type |-> "int", v |-> 0, ret |-> FALSE,
                    before |-> 0]

OthersIdle ==
    /\ WorkerIdle /\ NamesIdle /\ CopyIdle /\ TextIdle
    /\ CountIdle /\ FoldersIdle /\ BatchIdle /\ LimitIdle /\ OpIdle

Init ==
    /\ \E loaded \in LoadedValues :
         settings_max_words =
            IF loaded # 0 /\ ValidateSetting(loaded) THEN loaded ELSE DefaultMaxWords
    /\ settings_skip = FALSE
    /\ set_request = 0
    /\ set_result = FALSE
    /\ HandlerIdle
    /\ OthersIdle

\* the settings and the splitter at rest, for the operations followed on
\* their own
MainIdle ==
    /\ settings_max_words = DefaultMaxWords
    /\ settings_skip = FALSE
    /\ set_request = 0
    /\ set_result = FALSE
    /\ HandlerIdle

mainVars == <<settings_max_words, settings_skip, set_request, set_result, pc, ext,
              paragraphs, max_words, skip_under_limit, req_at_read, i, part_num,
              current_content, current_words, started_alone, written, result,
              file_state, raised, progress_count, callbacks>>

\* Settings.set("max_words", value)
SettingsSet(value) ==
    /\ set_request' = value
    /\ IF ValidateSetting(value)
         THEN settings_max_words' = value /\ set_result' = TRUE
         ELSE settings_max_words' = settings_max_words /\ set_result' = FALSE
    /\ UNCHANGED <<settings_skip, pc, ext, paragraphs, result, file_state, raised>>
    /\ UNCHANGED <<localVars, progressVars, otherVars>>

\* Settings.set("skip_under_limit", value)
SettingsSetSkip(value) ==
    /\ settings_skip # value
    /\ settings_skip' = value
    /\ UNCHANGED <<settings_max_words, set_request, set_result, pc, ext,
                   paragraphs, result, file_state, raised>>
    /\ UNCHANGED <<localVars, progressVars, otherVars>>

----------------------------------------------------------------------------
(* splitter.py *)

FailedResult(msg) ==
    [success |-> FALSE, message |-> msg, total_words |-> 0,
     parts_created |-> 0, output_files |-> <<>>]

\* total_words = sum(utils.count_words(p) for p in paragraphs)
TotalWords(paras) == SumSeq(paras)

\* the skip check with a strict comparison
TxtSkipRuleStrict(total, limit, skip) == total < limit /\ skip

\* if total_words <= max_words and skip_under_limit  (_process_txt)
TxtSkipRule(total, limit, skip) == total <= limit /\ skip

\* if total_words <= max_words and skip_under_limit  (_process_docx)
DocxSkipRule(total, limit, skip) == total <= limit /\ skip

\* the overflow check looking at the new paragraph alone
TxtOverflowsParaOnly(cur_words, para_words, limit) ==
    para_words > limit /\ cur_words > 0

\* if current_words + para_words > max_words and current_words > 0  (_process_txt)
TxtOverflows(cur_words, para_words, limit) ==
    cur_words + para_words > limit /\ cur_words > 0

\* the overflow check closing a part that would reach the limit
DocxOverflowsAtLimit(cur_words, para_words, limit) ==
    cur_words + para_words >= limit /\ cur_words > 0

\* if current_words + para_words > max_words and current_words > 0  (_process_docx)
DocxOverflows(cur_words, para_words, limit) ==
    cur_words + para_words > limit /\ cur_words > 0

\* the append placed in the else branch of the close
NextContentDropOnClose(content, closing, para) ==
    IF closing THEN <<>> ELSE content \o <<para>>

\* current_content = [] on a close, then current_content.append(para)
NextContent(content, closing, para) ==
    (IF closing THEN <<>> ELSE content) \o <<para>>

\* if current_content:  (_process_txt, the last part)
TxtHasLastPart(content, cur_words) == content # <<>>

\* if current_words > 0:  (_process_docx, the last part)
DocxHasLastPart(content, cur_words) == cur_words > 0

SkipRule(e, total, limit, skip) ==
    IF e = ".docx" THEN DocxSkipRule(total, limit, skip)
                   ELSE TxtSkipRule(total, limit, skip)

Overflows(e, cur_words, para_words, limit) ==
    IF e = ".docx" THEN DocxOverflows(cur_words, para_words, limit)
                   ELSE TxtOverflows(cur_words, para_words, limit)

HasLastPart(e, content, cur_words) ==
    IF e = ".docx" THEN DocxHasLastPart(content, cur_words)
                   ELSE TxtHasLastPart(content, cur_words)

\* str.lower on the extension
Lower(e) == IF e = ".TXT" THEN ".txt" ELSE e

\* check_file_access accepting whatever exists
CheckFileAccessExistsOnly(fs) == fs # "missing"

\* utils.check_file_access: exists, is a file, opens for reading
CheckFileAccess(fs) ==
    IF fs = "missing" THEN FALSE
    ELSE IF fs = "notfile" THEN FALSE
    ELSE IF fs \in {"denied", "locked"} THEN FALSE
    ELSE TRUE

\* the dispatch with the text handler as the else branch
SupportedElseTxt(e) == TRUE

\* if ext == ".docx" ... elif ext == ".txt" ... else unsupported
Supported(e) == e = ".docx" \/ e = ".txt"

Min(a, b) == IF a < b THEN a ELSE b

\* the share of the paragraphs still to come
ProgressRemaining(idx, n) == Min(100, ((n - idx) * 100) \div n)

\* progress = min(100, int((i / len(paragraphs)) * 100)); the float quotient
\* truncates to the integer quotient for every length up to 49
Progress(idx, n) == Min(100, (idx * 100) \div n)

Call(stage, pct) == [stage |-> stage, pct |-> pct]

\* the except branch reporting the parts saved so far
ErrorResultCountsSaved ==
    [result EXCEPT !.message = "error", !.parts_created = Len(written)]

\* the except branch of a handler: the handler's own result dict, with what
\* it already holds, and the error message
ErrorResult == [result EXCEPT !.message = "error"]

\* the limit looked up in the settings at every check
LimitLive == settings_max_words

\* the max_words the skip check and the overflow check compare with: the
\* local assigned once from settings.get("max_words")
Limit == max_words

\* process_file up to the skip check: access check, dispatch on the
\* extension, load, extract the paragraphs, count, read the settings
Begin(e, fs, load_ok, doc) ==
    /\ pc = "idle"
    /\ ext' = Lower(e)
    /\ file_state' = fs
    /\ IF ~CheckFileAccess(fs) THEN
            /\ result' = FailedResult("access")
            /\ pc' = "returned"
            /\ UNCHANGED <<paragraphs, max_words, skip_under_limit, req_at_read,
                           raised, callbacks>>
       ELSE IF ~Supported(Lower(e)) THEN
            /\ result' = FailedResult("unsupported")
            /\ pc' = "returned"
            /\ UNCHANGED <<paragraphs, max_words, skip_under_limit, req_at_read,
                           raised, callbacks>>
       ELSE IF ~load_ok THEN
            /\ result' = FailedResult("error")
            /\ raised' = "load"
            /\ callbacks' = <<Call("loading", 0), Call("error", 100)>>
            /\ pc' = "returned"
            /\ UNCHANGED <<paragraphs, max_words, skip_under_limit, req_at_read>>
       ELSE
            /\ paragraphs' = doc
            /\ result' = [FailedResult("") EXCEPT !.total_words = TotalWords(doc)]
            /\ max_words' = settings_max_words
            /\ skip_under_limit' = settings_skip
            /\ req_at_read' = set_request
            /\ callbacks' = <<Call("loading", 0)>>
            /\ pc' = "check"
            /\ UNCHANGED raised
    /\ UNCHANGED settingsVars
    /\ UNCHANGED <<i, part_num, current_content, current_words, started_alone,
                   written, progress_count, otherVars>>

\* the skip check and, when it does not fire, the start of the split
SkipCheck ==
    /\ pc = "check"
    /\ IF SkipRule(ext, result.total_words, Limit, skip_under_limit) THEN
            /\ result' = [result EXCEPT !.message = "skipped", !.success = TRUE]
            /\ callbacks' = Append(callbacks, Call("skipped", 100))
            /\ pc' = "returned"
            /\ UNCHANGED <<part_num, current_content, current_words, i,
                           progress_count>>
       ELSE
            /\ part_num' = 1
            /\ current_content' = <<>>
            /\ current_words' = 0
            /\ progress_count' = 0
            /\ i' = 0
            /\ pc' = "loop"
            /\ UNCHANGED <<result, callbacks>>
    /\ UNCHANGED settingsVars
    /\ UNCHANGED <<ext, paragraphs, max_words, skip_under_limit, req_at_read,
                   started_alone, written, file_state, raised, otherVars>>

\* one iteration of "for i, para in enumerate(paragraphs)"
PackStep(save_ok) ==
    /\ pc = "loop"
    /\ i < Len(paragraphs)
    /\ LET para == i + 1
           para_words == paragraphs[para]
           closing == Overflows(ext, current_words, para_words, Limit)
           progress == Progress(i, Len(paragraphs))
           emit == progress > progress_count
           reported == IF emit THEN Append(callbacks, Call("processing", progress))
                       ELSE callbacks
           saving == IF closing THEN Append(reported, Call("saving", progress))
                     ELSE reported
       IN
       /\ progress_count' = IF emit THEN progress ELSE progress_count
       /\ IF closing /\ ~save_ok THEN
               \* the save raised
               /\ result' = ErrorResult
               /\ raised' = "save"
               /\ callbacks' = Append(saving, Call("error", 100))
               /\ pc' = "returned"
               /\ UNCHANGED <<i, part_num, current_content, current_words,
                              started_alone, written>>
          ELSE
               /\ callbacks' = saving
               /\ UNCHANGED raised
               /\ IF closing THEN
                      /\ written' = Append(written,
                                     [num |-> part_num, paras |-> current_content])
                      /\ result' = [result EXCEPT !.output_files =
                                       Append(result.output_files, part_num)]
                      /\ part_num' = part_num + 1
                  ELSE
                      /\ save_ok
                      /\ UNCHANGED <<written, result, part_num>>
               /\ current_content' = NextContent(current_content, closing, para)
               /\ current_words' = (IF closing THEN 0 ELSE current_words) + para_words
               /\ started_alone' =
                      IF closing \/ current_content = <<>>
                      THEN started_alone \cup {para} ELSE started_alone
               /\ i' = i + 1
               /\ pc' = "loop"
    /\ UNCHANGED settingsVars
    /\ UNCHANGED <<ext, paragraphs, max_words, skip_under_limit, req_at_read,
                   file_state, otherVars>>

\* after the loop: save the last part, fill in the result
Finish(save_ok) ==
    /\ pc = "loop"
    /\ i = Len(paragraphs)
    /\ LET last == HasLastPart(ext, current_content, current_words)
           saving == IF last THEN Append(callbacks, Call("saving", 100))
                     ELSE callbacks
       IN IF last /\ ~save_ok THEN
               /\ result' = ErrorResult
               /\ raised' = "save"
               /\ callbacks' = Append(saving, Call("error", 100))
               /\ UNCHANGED written
          ELSE
               /\ last \/ save_ok
               /\ callbacks' = Append(saving, Call("complete", 100))
               /\ UNCHANGED raised
               /\ written' = IF last
                              THEN Append(written,
                                     [num |-> part_num, paras |-> current_content])
                              ELSE written
               /\ result' = [result EXCEPT
                      !.output_files = IF last THEN Append(@, part_num) ELSE @,
                      !.parts_created = part_num,
                      !.success = TRUE,
                      !.message = "split"]
    /\ pc' = "returned"
    /\ UNCHANGED settingsVars
    /\ UNCHANGED <<ext, paragraphs, max_words, skip_under_limit, req_at_read, i,
                   part_num, current_content, current_words, started_alone,
                   file_state, progress_count, otherVars>>

\* the caller takes the result; the next process_file call starts afresh
NextFile ==
    /\ pc = "returned"
    /\ pc' = "idle"
    /\ ext' = ""
    /\ paragraphs' = <<>>
    /\ max_words' = 0
    /\ skip_under_limit' = FALSE
    /\ req_at_read' = 0
    /\ i' = 0
    /\ part_num' = 0
    /\ current_content' = <<>>
    /\ current_words' = 0
    /\ started_alone' = {}
    /\ written' = <<>>
    /\ result' = FailedResult("")
    /\ file_state' = "none"
    /\ raised' = "none"
    /\ progress_count' = 0
    /\ callbacks' = <<>>
    /\ UNCHANGED settingsVars
    /\ UNCHANGED otherVars

DocsOf(e) ==
    IF e = ".docx" THEN DocsOver(DocxWords)
    ELSE IF Lower(e) = ".txt" THEN DocsOver(TxtWords) \cup {TestDoc}
    ELSE {<<>>}

Next ==
    \/ \E v \in SetValues : SettingsSet(v)
    \/ \E b \in BOOLEAN : SettingsSetSkip(b)
    \/ \E e \in Extensions, fs \in FileStates, ok \in BOOLEAN :
          \E doc \in DocsOf(e) : Begin(e, fs, ok, doc)
    \/ SkipCheck
    \/ \E ok \in BOOLEAN : PackStep(ok)
    \/ \E ok \in BOOLEAN : Finish(ok)
    \/ NextFile

Spec == Init /\ [][Next]_vars

----------------------------------------------------------------------------
(* gui.py: Worker.process *)

\* what one process_file call can do, seen from the Worker
Outcomes == {"success", "failed", "raised"}

\* an exception of one file leaving the loop
NextIndexAbortOnRaise(idx, outcome, n) == IF outcome = "raised" THEN n ELSE idx + 1

\* the inner try/except keeps the for loop going whatever the file did
NextIndex(idx, outcome, n) == idx + 1

\* fileComplete when result["success"], fileError otherwise and on an exception
TerminalSignal(outcome) ==
    IF outcome = "success" THEN "fileComplete" ELSE "fileError"

\* the thread starts Worker.process on a batch of n files
WorkerStart(n) ==
    /\ w_pc = "idle"
    /\ w_pc' = "running"
    /\ w_files' = n
    /\ w_idx' = 0
    /\ w_outcomes' = <<>>
    /\ w_signals' = <<>>
    /\ w_finished' = 0
    /\ UNCHANGED <<mainVars, nameVars, copyVars, textVars, countVars, folderVars,
                 batchVars, limitVars, opVars>>

\* one iteration of "for file_path in self.files"
WorkerFile(outcome) ==
    /\ w_pc = "running"
    /\ w_idx < w_files
    /\ w_outcomes' = Append(w_outcomes, outcome)
    /\ w_signals' = Append(w_signals,
                          [file |-> w_idx + 1, kind |-> TerminalSignal(outcome)])
    /\ w_idx' = NextIndex(w_idx, outcome, w_files)
    /\ UNCHANGED <<w_pc, w_files, w_finished>>
    /\ UNCHANGED <<mainVars, nameVars, copyVars, textVars, countVars, folderVars,
                 batchVars, limitVars, opVars>>

\* the loop is over: finally: self.finished.emit()
WorkerFinished ==
    /\ w_pc = "running"
    /\ w_idx >= w_files
    /\ w_finished' = w_finished + 1
    /\ w_pc' = "done"
    /\ UNCHANGED <<w_files, w_idx, w_outcomes, w_signals>>
    /\ UNCHANGED <<mainVars, nameVars, copyVars, textVars, countVars, folderVars,
                 batchVars, limitVars, opVars>>

WorkerInit ==
    /\ MainIdle /\ WorkerIdle /\ NamesIdle /\ CopyIdle /\ TextIdle
    /\ CountIdle /\ FoldersIdle /\ BatchIdle /\ LimitIdle /\ OpIdle

WorkerNext ==
    \/ \E n \in 1..MaxFiles : WorkerStart(n)
    \/ \E o \in Outcomes : WorkerFile(o)
    \/ WorkerFinished

SpecWorker == WorkerInit /\ [][WorkerNext]_vars

----------------------------------------------------------------------------
(* utils.py: get_output_filename, on sequences of characters *)

MaxLength == 200

DigitChars == {"0", "1", "2", "3", "4", "5", "6", "7", "8", "9"}
Letters == {"a", "b", "c", "d", "o", "x", "t", "P", "r", "H", "Y", "E", "N"}
\* the class \w
WordChars == Letters \cup DigitChars \cup {"_"}
\* what str.strip removes
Blanks == {" "}
\* the class [\\/*?:"<>|] of sanitize_filename
InvalidChars == {"\\", "/", "*", "?", ":", "\"", "<", ">", "|"}

DigitOf(d) == CASE d = 0 -> "0" [] d = 1 -> "1" [] d = 2 -> "2" [] d = 3 -> "3"
                [] d = 4 -> "4" [] d = 5 -> "5" [] d = 6 -> "6" [] d = 7 -> "7"
                [] d = 8 -> "8" [] d = 9 -> "9"

\* str(part_num)
RECURSIVE Str(_)
Str(n) == IF n < 10 THEN <<DigitOf(n)>> ELSE Str(n \div 10) \o <<DigitOf(n % 10)>>

PartMarker == <<"-", " ", "P", "a", "r", "t", " ">>

AllIn(seq, S) == \A k \in 1..Len(seq) : seq[k] \in S

\* os.path.basename: what follows the last separator
Basename(path) ==
    LET seps == {k \in 1..Len(path) : path[k] = "/"}
    IN IF seps = {} THEN path
       ELSE SubSeq(path, (CHOOSE k \in seps : \A m \in seps : m <= k) + 1, Len(path))

\* whether tail is "- Part " digits "." word characters, up to its end:
\* the pattern - Part \d+\.\w+$ matched at the start of tail
IsPartTail(tail) ==
    /\ Len(tail) > Len(PartMarker)
    /\ SubSeq(tail, 1, Len(PartMarker)) = PartMarker
    /\ \E dot \in (Len(PartMarker) + 2)..(Len(tail) - 1) :
          /\ tail[dot] = "."
          /\ AllIn(SubSeq(tail, Len(PartMarker) + 1, dot - 1), DigitChars)
          /\ AllIn(SubSeq(tail, dot + 1, Len(tail)), WordChars)

\* the positions at which re.search(r'- Part \d+\.\w+$', name) can match
PartMatches(name) ==
    {k \in 1..Len(name) : IsPartTail(SubSeq(name, k, Len(name)))}

\* if re.search(...): original_name = re.sub(r'- Part \d+(\.\w+)$', r'\1', name)
StripPartMarker(name) ==
    IF PartMatches(name) = {} THEN name
    ELSE LET k == CHOOSE m \in PartMatches(name) : \A o \in PartMatches(name) : m <= o
             tail == SubSeq(name, k, Len(name))
             dot == CHOOSE d \in 1..Len(tail) :
                       tail[d] = "." /\ \A e \in 1..Len(tail) : tail[e] = "." => e <= d
         IN SubSeq(name, 1, k - 1) \o SubSeq(tail, dot, Len(tail))

\* os.path.splitext: the extension starts at the last dot, unless only
\* dots precede it
SplitExt(name) ==
    LET dots == {k \in 1..Len(name) : name[k] = "."}
        last == CHOOSE k \in dots : \A m \in dots : m <= k
    IN IF dots = {} \/ (\A k \in 1..(last - 1) : name[k] = ".")
       THEN [base |-> name, ext |-> <<>>]
       ELSE [base |-> SubSeq(name, 1, last - 1), ext |-> SubSeq(name, last, Len(name))]

\* if len(base_name) > max_length - 15: base_name[:max_length - 15] + "..."
Truncate(base, max_length) ==
    IF Len(base) > max_length - 15
    THEN SubSeq(base, 1, max_length - 15) \o <<".", ".", ".">>
    ELSE base

RECURSIVE LStrip(_, _)
LStrip(seq, S) == IF seq # <<>> /\ Head(seq) \in S THEN LStrip(Tail(seq), S) ELSE seq

RECURSIVE RStrip(_, _)
RStrip(seq, S) ==
    IF seq # <<>> /\ seq[Len(seq)] \in S
    THEN RStrip(SubSeq(seq, 1, Len(seq) - 1), S) ELSE seq

\* utils.sanitize_filename
SanitizeFilename(name) ==
    LET kept == SelectSeq(name, LAMBDA c : c \notin InvalidChars)
        trimmed == RStrip(RStrip(LStrip(kept, Blanks), Blanks), {"."})
    IN IF trimmed = <<>> THEN <<"u", "n", "t", "i", "t", "l", "e", "d">> ELSE trimmed

\* utils.get_output_filename; the folder it is joined to is left out
GetOutputFilename(original_path, num, max_length) ==
    LET original_name == StripPartMarker(Basename(original_path))
        parts == SplitExt(original_name)
        base_name == Truncate(parts.base, max_length)
    IN SanitizeFilename(base_name \o <<" ">> \o PartMarker \o Str(num)
                        \o parts.ext)

NameChars == {"a", "b", " "}
BaseNames == UNION {[1..m -> NameChars] : m \in 1..MaxBase}
NameExts == {<<".", "d", "o", "c", "x">>, <<".", "t", "x", "t">>}
Folders == {<<>>, <<"d", "/">>}
\* the part numbers a name carries, and those asked for
MarkerNumbers == {2, 12}
PartNumbers == {1, 2}

\* a path whose name is <base><ext> or <base> - Part <M><ext>
NamesInit ==
    /\ MainIdle
    /\ WorkerIdle
    /\ CopyIdle
    /\ TextIdle
    /\ CountIdle /\ FoldersIdle /\ BatchIdle /\ LimitIdle /\ OpIdle
    /\ n_pc = "input"
    /\ n_base \in {b \in BaseNames : b[1] # " " /\ b[Len(b)] # " "}
    /\ n_ext \in NameExts
    /\ n_marked \in BOOLEAN
    /\ n_num \in PartNumbers
    /\ \E folder \in Folders, marker \in MarkerNumbers :
          n_path = folder \o n_base
                   \o (IF n_marked THEN <<" ">> \o PartMarker \o Str(marker)
                       ELSE <<>>)
                   \o n_ext
    /\ n_out = <<>>

\* output_path = utils.get_output_filename(file_path, part_num, output_folder)
GetName ==
    /\ n_pc = "input"
    /\ n_out' = GetOutputFilename(n_path, n_num, MaxLength)
    /\ n_pc' = "done"
    /\ UNCHANGED <<n_base, n_ext, n_marked, n_path, n_num>>
    /\ UNCHANGED <<mainVars, workerVars, copyVars, textVars, countVars, folderVars,
                 batchVars, limitVars, opVars>>

NamesNext == GetName

SpecNames == NamesInit /\ [][NamesNext]_vars

----------------------------------------------------------------------------
(* splitter.py: the copy of a paragraph into the current part (DOCX) *)

\* the values of run.bold, run.italic and run.underline
Tri == {"True", "False", "None"}

RunTexts == {<<"a">>, <<"b">>}

\* text a paragraph holds outside its runs (a hyperlink), seen by para.text
\* and not by para.runs
OtherTexts == {<<>>, <<"h">>}

Run(text, bold, italic, underline) ==
    [text |-> text, bold |-> bold, italic |-> italic, underline |-> underline]

\* runs with at most one flag set or cleared, and runs with all three set
RunValues ==
    {Run(t, b, "None", "None") : t \in RunTexts, b \in Tri}
    \cup {Run(t, "None", it, "None") : t \in RunTexts, it \in Tri}
    \cup {Run(t, "None", "None", u) : t \in RunTexts, u \in Tri}
    \cup {Run(t, "True", "True", "True") : t \in RunTexts}

RunSeqs == UNION {[1..m -> RunValues] : m \in 0..MaxRuns}

RECURSIVE RunsText(_)
RunsText(runs) == IF runs = <<>> THEN <<>> ELSE Head(runs).text \o RunsText(Tail(runs))

\* para.text
ParaText(para) == RunsText(para.runs) \o para.other

\* r = p.add_run(run.text), with r.underline left as add_run made it
CopiedRunNoUnderline(run) == Run(run.text, run.bold, run.italic, "None")

\* r = p.add_run(run.text); r.bold = run.bold; r.italic = run.italic;
\* r.underline = run.underline
CopiedRun(run) == Run(run.text, run.bold, run.italic, run.underline)

\* current_doc.add_paragraph(text): one run without formatting when text
\* is not empty
AddParagraph(text) ==
    [runs |-> IF text = <<>> THEN <<>> ELSE <<Run(text, "None", "None", "None")>>]

\* a paragraph _get_docx_paragraphs yields: para.text.strip() is not empty
CopyInit ==
    /\ MainIdle
    /\ WorkerIdle
    /\ NamesIdle
    /\ TextIdle
    /\ CountIdle /\ FoldersIdle /\ BatchIdle /\ LimitIdle /\ OpIdle
    /\ c_pc = "input"
    /\ c_preserve \in BOOLEAN
    /\ c_src \in {para \in [runs : RunSeqs, other : OtherTexts] :
                    ParaText(para) # <<>>}
    /\ c_k = 0
    /\ c_dst = [runs |-> <<>>]

\* if preserve_formatting: p = current_doc.add_paragraph()
\* else: current_doc.add_paragraph(para.text)
CopyBegin ==
    /\ c_pc = "input"
    /\ IF c_preserve
       THEN /\ c_dst' = [runs |-> <<>>]
            /\ c_pc' = "copying"
       ELSE /\ c_dst' = AddParagraph(ParaText(c_src))
            /\ c_pc' = "done"
    /\ UNCHANGED <<c_preserve, c_src, c_k>>
    /\ UNCHANGED <<mainVars, workerVars, nameVars, textVars, countVars, folderVars,
                 batchVars, limitVars, opVars>>

\* one iteration of for run in para.runs
CopyRun ==
    /\ c_pc = "copying"
    /\ c_k < Len(c_src.runs)
    /\ c_dst' = [runs |-> Append(c_dst.runs, CopiedRun(c_src.runs[c_k + 1]))]
    /\ c_k' = c_k + 1
    /\ UNCHANGED <<c_pc, c_preserve, c_src>>
    /\ UNCHANGED <<mainVars, workerVars, nameVars, textVars, countVars, folderVars,
                 batchVars, limitVars, opVars>>

\* para.runs is exhausted
CopyEnd ==
    /\ c_pc = "copying"
    /\ c_k = Len(c_src.runs)
    /\ c_pc' = "done"
    /\ UNCHANGED <<c_preserve, c_src, c_k, c_dst>>
    /\ UNCHANGED <<mainVars, workerVars, nameVars, textVars, countVars, folderVars,
                 batchVars, limitVars, opVars>>

CopyNext == CopyBegin \/ CopyRun \/ CopyEnd

SpecCopy == CopyInit /\ [][CopyNext]_vars

----------------------------------------------------------------------------
(* splitter.py: a text file, its paragraphs, its parts and their reading *)

TextChars == {"a", " ", "\n"}
Contents == UNION {[1..m -> TextChars] : m \in 0..MaxText}

\* what str.strip removes
Whitespace == {" ", "\n"}
Newline == <<"\n">>
BlankLine == <<"\n", "\n">>

\* str.split(sep): cur is the piece being read
RECURSIVE SplitFrom(_, _, _)
SplitFrom(s, cur, sep) ==
    IF s = <<>> THEN <<cur>>
    ELSE IF Len(s) >= Len(sep) /\ SubSeq(s, 1, Len(sep)) = sep
         THEN <<cur>> \o SplitFrom(SubSeq(s, Len(sep) + 1, Len(s)), <<>>, sep)
         ELSE SplitFrom(Tail(s), Append(cur, Head(s)), sep)

Split(s, sep) == SplitFrom(s, <<>>, sep)

\* str.strip
Strip(s) == RStrip(LStrip(s, Whitespace), Whitespace)

\* sep.join(pieces)
RECURSIVE Join(_, _)
Join(pieces, sep) ==
    IF pieces = <<>> THEN <<>>
    ELSE IF Len(pieces) = 1 THEN pieces[1]
    ELSE pieces[1] \o sep \o Join(Tail(pieces), sep)

\* content.split('\n\n'), content.split('\n') when that gave one piece,
\* then [p.strip() for p in paragraphs if p.strip()]
SplitParagraphs(content) ==
    LET blank == Split(content, BlankLine)
        pieces == IF Len(blank) = 1 THEN Split(content, Newline) ELSE blank
        stripped == [k \in 1..Len(pieces) |-> Strip(pieces[k])]
    IN SelectSeq(stripped, LAMBDA p : p # <<>>)

\* f.write('\n\n'.join(current_content))
WritePart(content) == Join(content, BlankLine)

TextInit ==
    /\ MainIdle
    /\ WorkerIdle
    /\ NamesIdle
    /\ CopyIdle
    /\ CountIdle /\ FoldersIdle /\ BatchIdle /\ LimitIdle /\ OpIdle
    /\ t_pc = "input"
    /\ t_content \in Contents
    /\ t_paras = <<>>
    /\ t_pos = 0
    /\ t_part = <<>>
    /\ t_file = <<>>
    /\ t_back = <<>>

\* content = f.read() and the split into paragraphs
TextRead ==
    /\ t_pc = "input"
    /\ t_paras' = SplitParagraphs(t_content)
    /\ t_pc' = "packing"
    /\ UNCHANGED <<t_content, t_pos, t_part, t_file, t_back>>
    /\ UNCHANGED <<mainVars, workerVars, nameVars, copyVars, countVars, folderVars,
                 batchVars, limitVars, opVars>>

\* a part of the next n paragraphs is written; where the loop closes a
\* part depends on the word counts and the limit, so every n is taken
TextWrite(n) ==
    /\ t_pc = "packing"
    /\ t_pos + n <= Len(t_paras)
    /\ t_part' = SubSeq(t_paras, t_pos + 1, t_pos + n)
    /\ t_file' = WritePart(t_part')
    /\ t_pos' = t_pos + n
    /\ t_pc' = "written"
    /\ UNCHANGED <<t_content, t_paras, t_back>>
    /\ UNCHANGED <<mainVars, workerVars, nameVars, copyVars, countVars, folderVars,
                 batchVars, limitVars, opVars>>

\* the part written last is read as a text file is read
TextReadBack ==
    /\ t_pc = "written"
    /\ t_back' = SplitParagraphs(t_file)
    /\ t_pc' = "read"
    /\ UNCHANGED <<t_content, t_paras, t_pos, t_part, t_file>>
    /\ UNCHANGED <<mainVars, workerVars, nameVars, copyVars, countVars, folderVars,
                 batchVars, limitVars, opVars>>

\* the loop goes on, or every paragraph has been written
TextContinue ==
    /\ t_pc = "read"
    /\ t_pc' = IF t_pos < Len(t_paras) THEN "packing" ELSE "done"
    /\ UNCHANGED <<t_content, t_paras, t_pos, t_part, t_file, t_back>>
    /\ UNCHANGED <<mainVars, workerVars, nameVars, copyVars, countVars, folderVars,
                 batchVars, limitVars, opVars>>

TextNext ==
    \/ TextRead
    \/ \E n \in 1..MaxText : TextWrite(n)
    \/ TextReadBack
    \/ TextContinue

SpecText == TextInit /\ [][TextNext]_vars

----------------------------------------------------------------------------
(* utils.py: count_words, on sequences of characters *)

\* the class [-, en dash, em dash] of the first substitution
Dashes == {"-"}
\* the class [,.;:!?)\]}"]
ClosingPunct == {",", ".", ";", ":", "!", "?", ")", "]", "}", "\""}
\* the class [([{"]
OpeningPunct == {"(", "[", "{", "\""}
\* the class \s; "nbsp" is the character \xa0
Spaces == {" ", "\n"}
HyphenMarker == <<"_", "H", "Y", "P", "H", "E", "N", "_">>

\* text.replace('\xa0', ' ')
ReplaceNbsp(s) == [k \in 1..Len(s) |-> IF s[k] = "nbsp" THEN " " ELSE s[k]]

\* re.sub(r'\s[-...]\s', ' ', text): matches are taken from the left and
\* do not overlap
RECURSIVE DashSub(_)
DashSub(s) ==
    IF Len(s) >= 3 /\ s[1] \in Spaces /\ s[2] \in Dashes /\ s[3] \in Spaces
    THEN <<" ">> \o DashSub(SubSeq(s, 4, Len(s)))
    ELSE IF s = <<>> THEN <<>>
    ELSE <<Head(s)>> \o DashSub(Tail(s))

\* length of the longest prefix of s made of characters of S
RECURSIVE RunLength(_, _)
RunLength(s, S) ==
    IF s # <<>> /\ Head(s) \in S THEN 1 + RunLength(Tail(s), S) ELSE 0

\* re.sub(r'(\w+)-(\w+)', r'\1_HYPHEN_\2', text)
RECURSIVE HyphenMark(_)
HyphenMark(s) ==
    IF s = <<>> THEN <<>>
    ELSE LET r == RunLength(s, WordChars)
             rest == SubSeq(s, r + 1, Len(s))
             r2 == IF rest = <<>> THEN 0 ELSE RunLength(Tail(rest), WordChars)
         IN IF r = 0 THEN <<Head(s)>> \o HyphenMark(Tail(s))
            ELSE IF rest # <<>> /\ Head(rest) = "-" /\ r2 > 0
                 THEN SubSeq(s, 1, r) \o HyphenMarker \o SubSeq(rest, 2, r2 + 1)
                      \o HyphenMark(SubSeq(rest, r2 + 2, Len(rest)))
                 ELSE SubSeq(s, 1, r) \o HyphenMark(rest)

\* a blank put between a character of First and a character of Second that
\* follows it: re.sub(r'([First])([Second])', r'\1 \2', text)
RECURSIVE SpaceBetween(_, _, _)
SpaceBetween(s, First, Second) ==
    IF s = <<>> THEN <<>>
    ELSE IF Len(s) >= 2 /\ s[1] \in First /\ s[2] \in Second
         THEN <<s[1], " ">> \o SpaceBetween(Tail(s), First, Second)
         ELSE <<Head(s)>> \o SpaceBetween(Tail(s), First, Second)

\* re.sub(r'\s+', ' ', text)
RECURSIVE CollapseSpaces(_)
CollapseSpaces(s) ==
    IF s = <<>> THEN <<>>
    ELSE IF Head(s) \in Spaces
         THEN <<" ">> \o CollapseSpaces(SubSeq(s, RunLength(s, Spaces) + 1, Len(s)))
         ELSE <<Head(s)>> \o CollapseSpaces(Tail(s))

\* [w for w in text.split() if w]
Words(s) == SelectSeq(Split(s, <<" ">>), LAMBDA w : w # <<>>)

\* utils.count_words
CountWords(text) ==
    IF text = <<>> THEN 0
    ELSE LET t1 == ReplaceNbsp(text)
             t2 == DashSub(t1)
             t3 == HyphenMark(t2)
             t4 == SpaceBetween(t3, ClosingPunct, WordChars)
             t5 == SpaceBetween(t4, WordChars, OpeningPunct)
             t6 == RStrip(LStrip(CollapseSpaces(t5), Spaces), Spaces)
         IN Len(Words(t6))

CountChars == {"a", "-", " "}
CountTexts == UNION {[1..m -> CountChars] : m \in 0..MaxCount}

CountInit ==
    /\ MainIdle /\ WorkerIdle /\ NamesIdle /\ CopyIdle /\ TextIdle
    /\ FoldersIdle /\ BatchIdle /\ LimitIdle /\ OpIdle
    /\ k_pc = "input"
    /\ k_text \in CountTexts
    /\ k_count = 0

\* para_words = utils.count_words(para)
CountText ==
    /\ k_pc = "input"
    /\ k_count' = CountWords(k_text)
    /\ k_pc' = "done"
    /\ UNCHANGED k_text
    /\ UNCHANGED <<mainVars, workerVars, nameVars, copyVars, textVars,
                   folderVars, batchVars, limitVars, opVars>>

CountNext == CountText

SpecCount == CountInit /\ [][CountNext]_vars

----------------------------------------------------------------------------
(* settings.py: set, load and reset with values of any type *)

\* a value handed to Settings: its Python type and, for the numeric types,
\* its number; True is 1
SettingNumbers == {0, 999, 1000, 1001, 50000, 99999, 100000, 100001}
TypedValues ==
    {[type |-> "int", v |-> n] : n \in SettingNumbers}
    \cup {[type |-> "float", v |-> 1500], [type |-> "str", v |-> 1500],
          [type |-> "bool", v |-> 1]}

\* the validation without the type check
ValidateTypedAnyType(tv) == ValidateSetting(tv.v)

\* Settings._validate_setting: isinstance(value, int), which holds for int
\* and bool, then the range
ValidateTyped(tv) ==
    IF tv.type \notin {"int", "bool"} THEN FALSE ELSE ValidateSetting(tv.v)

Op(op, tv, ret) ==
    [op |-> op, type |-> tv.type, v |-> tv.v, ret |-> ret,
     before |-> settings_max_words]

\* Settings(): the defaults, then load(); found is what settings.json holds
\* for max_words, absent when there is no file or no such key
SettingsInit ==
    /\ \E present \in BOOLEAN, found \in TypedValues :
          /\ settings_max_words =
                IF present /\ ValidateTyped(found) THEN found.v
                ELSE DefaultMaxWords
          /\ s_last = [op |-> "init", type |-> found.type, v |-> found.v,
                       ret |-> present /\ ValidateTyped(found),
                       before |-> DefaultMaxWords]
    /\ settings_skip = FALSE
    /\ set_request = 0
    /\ set_result = FALSE
    /\ HandlerIdle
    /\ WorkerIdle /\ NamesIdle /\ CopyIdle /\ TextIdle
    /\ CountIdle /\ FoldersIdle /\ BatchIdle /\ LimitIdle

\* Settings.set("max_words", value) for a value of any type
SettingsSetTyped(tv) ==
    /\ s_last' = Op("set", tv, ValidateTyped(tv))
    /\ settings_max_words' = IF ValidateTyped(tv) THEN tv.v ELSE settings_max_words
    /\ UNCHANGED <<settings_skip, set_request, set_result, pc, ext, paragraphs,
                   result, file_state, raised>>
    /\ UNCHANGED <<localVars, progressVars, workerVars, nameVars, copyVars,
                   textVars, countVars, folderVars, batchVars, limitVars>>

\* Settings.load() finding value for max_words in settings.json
SettingsLoad(tv) ==
    /\ s_last' = Op("load", tv, ValidateTyped(tv))
    /\ settings_max_words' = IF ValidateTyped(tv) THEN tv.v ELSE settings_max_words
    /\ UNCHANGED <<settings_skip, set_request, set_result, pc, ext, paragraphs,
                   result, file_state, raised>>
    /\ UNCHANGED <<localVars, progressVars, workerVars, nameVars, copyVars,
                   textVars, countVars, folderVars, batchVars, limitVars>>

\* Settings.reset()
SettingsReset ==
    /\ s_last' = Op("reset", [type |-> "int", v |-> DefaultMaxWords], TRUE)
    /\ settings_max_words' = DefaultMaxWords
    /\ settings_skip' = FALSE
    /\ UNCHANGED <<set_request, set_result, pc, ext, paragraphs,
                   result, file_state, raised>>
    /\ UNCHANGED <<localVars, progressVars, workerVars, nameVars, copyVars,
                   textVars, countVars, folderVars, batchVars, limitVars>>

SettingsNext ==
    \/ \E tv \in TypedValues : SettingsSetTyped(tv)
    \/ \E b \in BOOLEAN : SettingsSetSkip(b)
    \/ \E tv \in TypedValues : SettingsLoad(tv)
    \/ SettingsReset

SpecSettings == SettingsInit /\ [][SettingsNext]_vars

----------------------------------------------------------------------------
(* gui.py: WordLimitInput and update_word_limit, with the splitter *)

\* QIntValidator(1000, 1000000)
ValidatorBottom == 1000
ValidatorTop == 1000000

\* numbers the text of the input can spell while it is edited
EditValues == {5, 1000, 2000, 100000, 100001, 1000000}

\* documents split while the limit is edited
LimitDocs == {<<500>>, <<1001, 500>>}

\* ManusplitApp.__init__: WordLimitInput(self.settings.get("max_words"))
LimitInit ==
    /\ \E loaded \in LoadedValues :
         settings_max_words =
            IF loaded # 0 /\ ValidateSetting(loaded) THEN loaded ELSE DefaultMaxWords
    /\ settings_skip = FALSE
    /\ set_request = 0
    /\ set_result = FALSE
    /\ HandlerIdle
    /\ WorkerIdle /\ NamesIdle /\ CopyIdle /\ TextIdle
    /\ CountIdle /\ FoldersIdle /\ BatchIdle /\ OpIdle
    /\ g_value = settings_max_words

\* WordLimitInput._value_changed(text): self.value = int(text), then
\* valueChanged reaches update_word_limit, which calls settings.set
EditLimit(value) ==
    /\ g_value' = value
    /\ set_request' = value
    /\ IF ValidateSetting(value)
         THEN settings_max_words' = value /\ set_result' = TRUE
         ELSE settings_max_words' = settings_max_words /\ set_result' = FALSE
    /\ UNCHANGED <<settings_skip, pc, ext, paragraphs, result, file_state, raised>>
    /\ UNCHANGED <<localVars, progressVars, workerVars, nameVars, copyVars,
                   textVars, countVars, folderVars, batchVars, opVars>>

LimitNext ==
    \/ \E v \in EditValues : EditLimit(v)
    \/ \E doc \in LimitDocs : Begin(".txt", "ok", TRUE, doc)
    \/ SkipCheck
    \/ PackStep(TRUE)
    \/ Finish(TRUE)
    \/ NextFile

SpecLimit == LimitInit /\ [][LimitNext]_vars

----------------------------------------------------------------------------
(* gui.py: Worker.process with _prepare_output_folder; where parts go *)

\* a folder is named by its path below the main output folder; the main
\* output folder itself is the empty path
MainFolder == <<>>

TxtExt == <<".", "t", "x", "t">>
SourceDirs == {<<"d">>, <<"e">>}
SourceBases == {<<"a">>, <<"b">>, <<"!">>}
SourceDocs == [dir : SourceDirs, base : SourceBases, ext : {TxtExt}]

\* file_path of a document
DocPath(doc) == doc.dir \o <<"/">> \o doc.base \o doc.ext

\* batches of distinct paths
Batches ==
    {b \in UNION {[1..m -> SourceDocs] : m \in 1..MaxBatch} :
        \A x, y \in 1..Len(b) : x # y => b[x] # b[y]}

\* folders found under the main output folder when the batch starts
ExistingDirs == {{}, {<<"a">>}, {<<"a">>, <<"a", "_", "1">>}}

\* c.isalnum() or c in [' ', '-', '_']
FolderChars == Letters \cup DigitChars \cup {" ", "-", "_"}

\* folder_name: the characters kept, stripped, "Document" if nothing is left
FolderName(path) ==
    LET filename == SplitExt(Basename(path)).base
        kept == RStrip(LStrip(SelectSeq(filename, LAMBDA c : c \in FolderChars),
                              Blanks), Blanks)
    IN IF kept = <<>> THEN <<"D", "o", "c", "u", "m", "e", "n", "t">> ELSE kept

\* while os.path.exists(output_dir): output_dir = f"{original}_{count}"
FreshDir(name, dirs) ==
    IF name \notin dirs THEN name
    ELSE LET free == {c \in 1..(Cardinality(dirs) + 1) :
                         name \o <<"_">> \o Str(c) \notin dirs}
         IN name \o <<"_">> \o Str(CHOOSE c \in free : \A o \in free : c <= o)

\* the folder the splitter writes to: self.settings.get("output_folder") of
\* both handlers, whatever current_output_folder holds
SplitterFolder == MainFolder

FoldersInit ==
    /\ MainIdle /\ WorkerIdle /\ NamesIdle /\ CopyIdle /\ TextIdle
    /\ CountIdle /\ BatchIdle /\ LimitIdle /\ OpIdle
    /\ f_pc = "running"
    /\ f_batch \in Batches
    /\ f_idx = 0
    /\ f_dirs \in ExistingDirs
    /\ f_current = MainFolder
    /\ f_dedicated = <<>>
    /\ f_written = <<>>

\* one iteration of the loop of Worker.process: _prepare_output_folder, then
\* process_file saving np parts; prep_ok is false when creating the folder
\* raised
FolderFile(prep_ok, np) ==
    /\ f_pc = "running"
    /\ f_idx < Len(f_batch)
    /\ LET doc == f_idx + 1
           path == DocPath(f_batch[doc])
           dir == FreshDir(FolderName(path), f_dirs)
           part(k) == [doc |-> doc, folder |-> SplitterFolder,
                       name |-> GetOutputFilename(path, k, MaxLength)]
       IN /\ IF prep_ok
                THEN /\ f_dirs' = f_dirs \cup {dir}
                     /\ f_current' = dir
                     /\ f_dedicated' = Append(f_dedicated, <<dir>>)
                ELSE /\ f_current' = MainFolder
                     /\ f_dedicated' = Append(f_dedicated, <<>>)
                     /\ UNCHANGED f_dirs
          /\ f_written' = f_written \o [k \in 1..np |-> part(k)]
    /\ f_idx' = f_idx + 1
    /\ UNCHANGED <<f_pc, f_batch>>
    /\ UNCHANGED <<mainVars, workerVars, nameVars, copyVars, textVars, countVars,
                   batchVars, limitVars, opVars>>

\* the loop is over: finished.emit()
FolderFinished ==
    /\ f_pc = "running"
    /\ f_idx = Len(f_batch)
    /\ f_pc' = "done"
    /\ UNCHANGED <<f_batch, f_idx, f_dirs, f_current, f_dedicated, f_written>>
    /\ UNCHANGED <<mainVars, workerVars, nameVars, copyVars, textVars, countVars,
                   batchVars, limitVars, opVars>>

FoldersNext ==
    \/ \E prep_ok \in BOOLEAN, np \in 0..MaxParts : FolderFile(prep_ok, np)
    \/ FolderFinished

SpecFolders == FoldersInit /\ [][FoldersNext]_vars

----------------------------------------------------------------------------
(* gui.py: process_files, the worker threads and the GUI event queue *)

\* a QThread started by process_files:
\*   "working"  Worker.process is running
\*   "done"     Worker.process emitted finished; quit is queued for the GUI
\*   "exiting"  quit was called, the thread leaves its event loop
\*   "stopped"  the thread finished: isRunning() is false and the slot
\*              clearing self.worker_thread is queued for the GUI
ThreadStates == {"working", "done", "exiting", "stopped"}

\* QThread.isRunning()
IsRunning(state) == state # "stopped"

Event(kind, t) == [kind |-> kind, t |-> t]

\* the guard of process_files passes: not (worker_thread and
\* worker_thread.isRunning())
MayStart(ref, threads) == ~(ref # 0 /\ IsRunning(threads[ref]))

BatchInit ==
    /\ MainIdle /\ WorkerIdle /\ NamesIdle /\ CopyIdle /\ TextIdle
    /\ CountIdle /\ FoldersIdle /\ LimitIdle /\ OpIdle
    /\ b_threads = <<>>
    /\ b_ref = 0
    /\ b_queue = <<>>
    /\ b_overlap = FALSE

\* files are dropped or chosen: the event waits for the GUI thread
UserDrop ==
    /\ Len(b_queue) < MaxQueue
    /\ b_queue' = Append(b_queue, Event("drop", 0))
    /\ UNCHANGED <<b_threads, b_ref, b_overlap>>
    /\ UNCHANGED <<mainVars, workerVars, nameVars, copyVars, textVars, countVars,
                   folderVars, limitVars, opVars>>

\* the GUI thread handles the oldest event: process_files for dropped
\* files, worker_thread.quit for a finished Worker, and the lambda that
\* sets self.worker_thread to None for a finished thread
GuiHandle ==
    /\ b_queue # <<>>
    /\ LET ev == Head(b_queue)
       IN CASE ev.kind = "drop" ->
                 IF MayStart(b_ref, b_threads)
                 THEN /\ Len(b_threads) < MaxThreads
                      /\ b_overlap' =
                            (b_overlap \/ \E t \in 1..Len(b_threads) :
                                             IsRunning(b_threads[t]))
                      /\ b_threads' = Append(b_threads, "working")
                      /\ b_ref' = Len(b_threads) + 1
                 ELSE UNCHANGED <<b_threads, b_ref, b_overlap>>
            [] ev.kind = "quit" ->
                 /\ b_threads' = [b_threads EXCEPT ![ev.t] = "exiting"]
                 /\ UNCHANGED <<b_ref, b_overlap>>
            [] ev.kind = "clear" ->
                 /\ b_ref' = 0
                 /\ UNCHANGED <<b_threads, b_overlap>>
    /\ b_queue' = Tail(b_queue)
    /\ UNCHANGED <<mainVars, workerVars, nameVars, copyVars, textVars, countVars,
                   folderVars, limitVars, opVars>>

\* Worker.process of thread t returns: finished is emitted and
\* worker_thread.quit is queued for the GUI thread
ThreadWorkDone(t) ==
    /\ t \in 1..Len(b_threads)
    /\ b_threads[t] = "working"
    /\ b_threads' = [b_threads EXCEPT ![t] = "done"]
    /\ b_queue' = Append(b_queue, Event("quit", t))
    /\ UNCHANGED <<b_ref, b_overlap>>
    /\ UNCHANGED <<mainVars, workerVars, nameVars, copyVars, textVars, countVars,
                   folderVars, limitVars, opVars>>

\* thread t leaves its event loop: it is no longer running and its
\* finished signal queues the clearing lambda for the GUI thread
ThreadFinish(t) ==
    /\ t \in 1..Len(b_threads)
    /\ b_threads[t] = "exiting"
    /\ b_threads' = [b_threads EXCEPT ![t] = "stopped"]
    /\ b_queue' = Append(b_queue, Event("clear", t))
    /\ UNCHANGED <<b_ref, b_overlap>>
    /\ UNCHANGED <<mainVars, workerVars, nameVars, copyVars, textVars, countVars,
                   folderVars, limitVars, opVars>>

BatchNext ==
    \/ UserDrop
    \/ GuiHandle
    \/ \E t \in 1..MaxThreads : ThreadWorkDone(t)
    \/ \E t \in 1..MaxThreads : ThreadFinish(t)

SpecBatch == BatchInit /\ [][BatchNext]_vars

----------------------------------------------------------------------------
(* Properties *)

RECURSIVE Concat(_)
Concat(parts) ==
    IF parts = <<>> THEN <<>> ELSE Head(parts).paras \o Concat(Tail(parts))

\* the word count of a written part: the sum over the paragraphs it holds
PartWords(part) == SumSeq([k \in 1..Len(part.paras) |-> paragraphs[part.paras[k]]])

RECURSIVE SumPartWords(_)
SumPartWords(parts) ==
    IF parts = <<>> THEN 0 ELSE PartWords(Head(parts)) + SumPartWords(Tail(parts))

\* the words of the document, summed paragraph by paragraph from the first
RECURSIVE WordsUpTo(_)
WordsUpTo(k) == IF k = 0 THEN 0 ELSE WordsUpTo(k - 1) + paragraphs[k]

InputWords == WordsUpTo(Len(paragraphs))

\* process_file returned from a run that was not skipped and did not fail
SplitDone == pc = "returned" /\ result.message = "split"

Skipped == pc = "returned" /\ result.message = "skipped"

\* C1 (partition invariant): when a run that was not skipped has returned,
\* the paragraph lists of the written parts, concatenated in part order, are
\* the input paragraphs 1..n in order: none lost, duplicated or reordered.
C1_PartitionInvariant ==
    SplitDone => Concat(written) = [k \in 1..Len(paragraphs) |-> k]

\* C2 (size bound): every written part totals at most max_words, unless it is
\* exactly one paragraph whose own word count exceeds max_words.
C2_SizeBound ==
    \A k \in 1..Len(written) :
        \/ PartWords(written[k]) <= max_words
        \/ /\ Len(written[k].paras) = 1
           /\ paragraphs[written[k].paras[1]] > max_words

\* a paragraph that was appended to an empty current part and is oversized
OversizedAlone(para) ==
    para \in started_alone /\ paragraphs[para] > max_words

IsOwnPart(para) ==
    \E k \in 1..Len(written) :
        written[k].paras = <<para>> /\ PartWords(written[k]) > max_words

\* C3 (oversized escape): an oversized paragraph that was reached with an
\* empty current part stays alone in the current part until the next
\* paragraph is processed, is then a written part of its own, and is a written
\* part of its own when the run has returned; that part exceeds max_words.
C3_OversizedEscape ==
    (pc = "loop" \/ SplitDone) =>
        \A para \in 1..Len(paragraphs) :
            OversizedAlone(para) =>
                \/ pc = "loop" /\ i = para /\ current_content = <<para>>
                                /\ current_words > max_words
                \/ IsOwnPart(para)

\* an oversized paragraph reached with an empty part and followed by a
\* paragraph of no words, in a run that has returned
C3_Witness ==
    /\ SplitDone
    /\ \E para \in 1..Len(paragraphs) :
          /\ OversizedAlone(para)
          /\ para < Len(paragraphs)
          /\ paragraphs[para + 1] = 0
          /\ IsOwnPart(para)

\* C4 (empty input): a document with no paragraph, loaded without error,
\* returns success, total_words 0, parts_created 0 and no output file,
\* whatever skip_under_limit is.
C4_EmptyInput ==
    (pc = "returned" /\ result.message \in {"split", "skipped"}
        /\ paragraphs = <<>>) =>
            /\ result.success
            /\ result.total_words = 0
            /\ result.parts_created = 0
            /\ result.output_files = <<>>
            /\ written = <<>>

\* C5 (skip rule): the step taken from the skip check goes to the skipped
\* outcome exactly when total <= max_words and skip_under_limit holds, with
\* no file written, no output file, parts_created 0, success, the document
\* total and the skip message; otherwise it enters the packing loop.
C5_SkipRule ==
    [][(pc = "check" /\ pc' # "check") =>
         IF InputWords <= max_words /\ skip_under_limit
         THEN /\ pc' = "returned"
              /\ written' = <<>>
              /\ result' = [success |-> TRUE, message |-> "skipped",
                            total_words |-> InputWords,
                            parts_created |-> 0, output_files |-> <<>>]
         ELSE /\ pc' = "loop"
              /\ i' = 0
              /\ written' = <<>>
              /\ result'.message = ""]_vars

\* a document whose total is exactly the limit was skipped
C5_Witness ==
    /\ Skipped
    /\ paragraphs # <<>>
    /\ InputWords = max_words

\* C6 (part numbering): a run that was not skipped and wrote N parts wrote
\* the parts numbered 1..N in that order, lists the file of part k as the
\* k-th output file, and reports N parts.
C6_PartNumbering ==
    SplitDone =>
        /\ \A k \in 1..Len(written) : written[k].num = k
        /\ result.output_files = [k \in 1..Len(written) |-> k]
        /\ result.parts_created = Len(written)

\* C7 (concrete scenario): ten paragraphs of five words, the limit set to 22,
\* skip_under_limit false: three parts of 4, 4 and 2 paragraphs.
C7_PackingScenario ==
    (SplitDone /\ ext = ".txt" /\ paragraphs = TestDoc /\ req_at_read = 22
        /\ ~skip_under_limit) =>
            /\ Len(written) = 3
            /\ [k \in 1..3 |-> Len(written[k].paras)] = <<4, 4, 2>>
            /\ [k \in 1..3 |-> PartWords(written[k])] = <<20, 20, 10>>

\* C8 (word totals): once counted, result.total_words is the sum of the word
\* counts of the input paragraphs, and when a run that was not skipped has
\* returned the word counts of the written parts add up to it.
C8_WordTotals ==
    /\ (pc \in {"check", "loop"} \/ SplitDone \/ Skipped) =>
            result.total_words = InputWords
    /\ SplitDone => SumPartWords(written) = result.total_words

\* a run that wrote several parts has returned
C8_Witness ==
    /\ SplitDone
    /\ Len(written) >= 2
    /\ result.total_words > max_words

\* C9 (set takes effect): after Settings.set("max_words", v) with a positive
\* integer v the stored limit is v, and a handler that then reads the
\* settings works with v.
C9_SetTakesEffect ==
    /\ set_request > 0 => settings_max_words = set_request
    /\ (pc \in {"check", "loop"} /\ req_at_read > 0) => max_words = req_at_read

\* C10 (split at the limit): a run with skip_under_limit false on a document
\* whose total reaches max_words returns success with more than one part.
C10_SplitAtLimit ==
    (SplitDone /\ ~skip_under_limit /\ result.total_words >= max_words) =>
            result.success /\ result.parts_created > 1

\* C12 (progress monotone and bounded): the percentages handed to the
\* callback during one process_file call never decrease and lie in 0..100,
\* whatever the outcome.
C12_ProgressMonotone ==
    \A k \in 1..Len(callbacks) :
        /\ callbacks[k].pct \in 0..100
        /\ k > 1 => callbacks[k - 1].pct <= callbacks[k].pct

\* a run that reported progress twice while processing, saved a part inside
\* the loop and completed
C12_Witness ==
    /\ SplitDone
    /\ Cardinality({k \in 1..Len(callbacks) : callbacks[k].stage = "processing"}) >= 2
    /\ \E k \in 1..Len(callbacks) :
          callbacks[k].stage = "saving" /\ callbacks[k].pct < 100

\* C13 (progress formula): once paragraph i of n has been processed, the
\* progress last reported for the processing stage is floor(i / n * 100)
\* clamped to 0..100, so 100 after the last paragraph.
C13_ProgressFormula ==
    (pc = "loop" /\ i >= 1) =>
        LET n == Len(paragraphs)
            f == (i * 100) \div n
        IN progress_count = (IF f > 100 THEN 100 ELSE f)

\* C14 (batch isolation): every file the loop has been through has exactly
\* one terminal signal, in order, fileComplete for a successful result and
\* fileError otherwise; finished is emitted once, after the last file, and
\* by then every file of the batch has been through the loop.
C14_BatchIsolation ==
    /\ Len(w_signals) = Len(w_outcomes)
    /\ \A k \in 1..Len(w_signals) :
          /\ w_signals[k].file = k
          /\ w_signals[k].kind =
                IF w_outcomes[k] = "success" THEN "fileComplete" ELSE "fileError"
    /\ w_pc = "running" => w_finished = 0
    /\ w_pc = "done" => w_finished = 1 /\ Len(w_signals) = w_files

\* a batch whose first file raised and whose later files were still handled
C14_Witness ==
    /\ w_pc = "done"
    /\ w_files >= 3
    /\ w_outcomes[1] = "raised"
    /\ w_outcomes[2] = "failed"
    /\ w_outcomes[3] = "success"

\* C15 (errors become failed results): an exception raised while loading
\* or while saving a part ends the call with a returned result: success
\* false, parts_created 0 and the error message.
C15_ErrorsBecomeResults ==
    raised # "none" =>
        /\ pc = "returned"
        /\ result.success = FALSE
        /\ result.parts_created = 0
        /\ result.message = "error"

\* the save of a later part raised after an earlier part had been saved
C15_Witness ==
    /\ raised = "save"
    /\ Len(written) >= 1
    /\ pc = "returned"

\* C16 (access error): a path that is missing, is no regular file or cannot
\* be opened ends the call at once: success false, the access message, no
\* part, no output file, nothing extracted, no callback, nothing written.
C16_AccessError ==
    file_state \in {"missing", "notfile", "denied", "locked"} =>
        /\ pc = "returned"
        /\ result = [success |-> FALSE, message |-> "access", total_words |-> 0,
                     parts_created |-> 0, output_files |-> <<>>]
        /\ paragraphs = <<>>
        /\ callbacks = <<>>
        /\ written = <<>>

\* a directory was handed to process_file
C16_Witness == pc = "returned" /\ file_state = "notfile" /\ ext = ".txt"

\* C17 (unsupported format): an accessible file whose lower-cased extension
\* is neither .docx nor .txt ends the call at once: success false, the
\* unsupported message, nothing extracted, no callback, nothing written.
C17_UnsupportedFormat ==
    (file_state = "ok" /\ ext \notin {".txt", ".docx"}) =>
        /\ pc = "returned"
        /\ result = [success |-> FALSE, message |-> "unsupported",
                     total_words |-> 0, parts_created |-> 0,
                     output_files |-> <<>>]
        /\ paragraphs = <<>>
        /\ callbacks = <<>>
        /\ written = <<>>

\* an accessible .pdf was handed to process_file
C17_Witness == pc = "returned" /\ file_state = "ok" /\ ext = ".pdf"

\* the name <base> - Part <N><ext>
PartName(base, num, extension) ==
    base \o <<" ", "-", " ", "P", "a", "r", "t", " ">> \o Str(num) \o extension

\* C11 (re-split naming): for a file named <base> - Part <M><ext> the name
\* returned for part N is exactly <base> - Part <N><ext>, the name that
\* <base><ext> gets.
C11_ResplitNaming ==
    (n_pc = "done" /\ n_marked) => n_out = PartName(n_base, n_num, n_ext)

\* C18 (run-preserving copy): with preserve_formatting the copied paragraph
\* has, run for run and in the same order, the text and the bold, italic
\* and underline values of the source paragraph's runs; while the loop runs,
\* of the runs gone through so far.
C18_RunPreservingCopy ==
    (c_preserve /\ c_pc \in {"copying", "done"}) =>
        /\ c_pc = "done" => Len(c_dst.runs) = Len(c_src.runs)
        /\ Len(c_dst.runs) = c_k
        /\ \A k \in 1..Len(c_dst.runs) :
              /\ c_dst.runs[k].text = c_src.runs[k].text
              /\ c_dst.runs[k].bold = c_src.runs[k].bold
              /\ c_dst.runs[k].italic = c_src.runs[k].italic
              /\ c_dst.runs[k].underline = c_src.runs[k].underline

\* two runs that differ in text and in every flag have been copied
C18_Witness ==
    /\ c_pc = "done"
    /\ c_preserve
    /\ Len(c_src.runs) = 2
    /\ c_src.runs[1] = Run(<<"a">>, "True", "True", "True")
    /\ c_src.runs[2] = Run(<<"b">>, "None", "None", "False")

\* C19 (run-less paragraphs keep their text): with preserve_formatting a
\* paragraph with text and no runs is copied as one run without formatting
\* that carries the paragraph's text.
C19_RunlessKeepsText ==
    (c_pc = "done" /\ c_preserve /\ c_src.runs = <<>>) =>
        c_dst.runs = <<Run(ParaText(c_src), "None", "None", "None")>>

\* C20 (text round trip): a part read again with the text path's own
\* paragraph splitting gives the paragraphs of the part, in order.
C20_TextRoundTrip ==
    t_pc = "read" => t_back = t_part

\* the tokens of a text: the places where a run of non-blank characters starts
TokenStarts(t) ==
    {k \in 1..Len(t) : t[k] \notin {" ", "\n"} /\ (k = 1 \/ t[k - 1] \in {" ", "\n"})}

\* the dashes with a blank on either side
LoneDashes(t) ==
    {k \in 2..(Len(t) - 1) :
        t[k] = "-" /\ t[k - 1] \in {" ", "\n"} /\ t[k + 1] \in {" ", "\n"}}

\* C21 (hyphens in count_words): a hyphen between two word characters does
\* not split the word, and a dash with a blank on either side counts for
\* nothing: the count is the number of blank-separated tokens that are not
\* such a dash; the empty text counts 0.
C21_HyphenHandling ==
    k_pc = "done" =>
        k_count = Cardinality(TokenStarts(k_text)) - Cardinality(LoneDashes(k_text))

\* C22 (policy captured by value): the max_words of a call is the setting as
\* it was when the call read it, it does not change while the call runs,
\* and the skip decision and every close decision are the ones that value
\* gives, whatever Settings.set does in between.
C22_PolicyCaptured ==
    [][ /\ (pc = "idle" /\ pc' = "check") => max_words' = settings_max_words
        /\ (pc \in {"check", "loop"}) => max_words' = max_words
        /\ (pc = "check" /\ pc' # "check") =>
              ((pc' = "returned") <=>
                  (result.total_words <= max_words /\ skip_under_limit))
        /\ (pc = "loop" /\ i' = i + 1) =>
              ((part_num' = part_num + 1) <=>
                  (current_words + paragraphs[i + 1] > max_words
                   /\ current_words > 0))
        /\ (pc = "loop" /\ i < Len(paragraphs) /\ pc' = "returned") =>
              (current_words + paragraphs[i + 1] > max_words /\ current_words > 0)
      ]_vars

\* the setting was changed while the call was packing, and the call went on
\* to close a part and return
C22_Witness ==
    /\ SplitDone
    /\ Len(written) >= 2
    /\ req_at_read # set_request
    /\ settings_max_words # max_words

C26_ResultConsistency ==
    pc = "returned" =>
        /\ result.parts_created = Len(result.output_files)
        /\ Len(result.output_files) = Len(written)

\* C27 (failure leaves no parts): when the returned result has success
\* false, no part file has been written and output_files is empty.
C27_FailureLeavesNoParts ==
    (pc = "returned" /\ ~result.success) =>
        /\ written = <<>>
        /\ result.output_files = <<>>

C30_DisplayedIsApplied ==
    [][ (pc = "idle" /\ pc' = "check" /\ g_value \in ValidatorBottom..ValidatorTop)
            => max_words' = g_value ]_vars

\* C24 (dedicated output folder): every part written for a document whose
\* folder was prepared lies in that folder.
C24_DedicatedFolder ==
    \A k \in 1..Len(f_written) :
        LET w == f_written[k]
        IN f_dedicated[w.doc] # <<>> => w.folder = f_dedicated[w.doc][1]

\* C28 (no cross-document overwrite): parts of two different documents of
\* a batch never have the same output path.
C28_NoCrossOverwrite ==
    \A k, m \in 1..Len(f_written) :
        f_written[k].doc # f_written[m].doc =>
            <<f_written[k].folder, f_written[k].name>>
                # <<f_written[m].folder, f_written[m].name>>

\* C25 (one batch at a time): process_files never starts a worker thread
\* while a thread started earlier is still running, and while a thread is
\* running self.worker_thread refers to it.
C25_OneBatchAtATime ==
    /\ ~b_overlap
    /\ \A t \in 1..Len(b_threads) : IsRunning(b_threads[t]) => b_ref = t

====
